---- MODULE Spec2Model ----
(***************************************************************************)
(* Model of the core of LegalFlowService's Telegram bot backend:          *)
(*   - RateLimiter  (utils.py): sliding-window admission per user key     *)
(*   - CacheManager (utils.py): TTL cache with size-based eviction        *)
(*   - TelegramBotService (telegram_bot_service.py): polling supervisor   *)
(*   - the message store of TelegramBotService: message and chat caches,  *)
(*     the remote tables, the update handlers and the reads               *)
(* Time is the wall clock read by datetime.now().timestamp(), modelled as *)
(* a non-decreasing integer.  Optional values are sequences of length 0   *)
(* (None) or 1.                                                           *)
(***************************************************************************)
EXTENDS Integers, Sequences, FiniteSets, TLC

VARIABLES
    now,                \* the wall clock
    max_requests,       \* RateLimiter.max_requests
    window_seconds,     \* RateLimiter.window_seconds
    requests,           \* RateLimiter.requests: key -> list of instants
    calls,              \* history of is_allowed calls: key, instant, result,
                        \* and the key's list before and after the call
    handler,            \* the _check_rate_limit coroutines, one per handler
    max_size,           \* CacheManager.max_size
    ttl_seconds,        \* CacheManager.ttl_seconds
    cache,              \* CacheManager.cache, in the dict's insertion order
    last,               \* the last cache operation: its arguments, result,
                        \* the cache before it and the keys it evicted
    is_initialized,     \* TelegramBotService.is_initialized
    is_polling,         \* TelegramBotService.is_polling
    reconnect_attempts, \* TelegramBotService.reconnect_attempts
    max_reconnect_attempts, \* TelegramBotService.max_reconnect_attempts
    connection_healthy, \* TelegramBotService.connection_healthy
    bot_info,           \* TelegramBotService.bot_info
    registered,         \* the handlers added to the application, in order
    task,               \* the coroutines calling the supervisor: where each
                        \* one is suspended, and what it saw on call and return
    g,                  \* history of the supervisor: counts of calls, of start
                        \* attempts and of their outcomes
    supabase,           \* TelegramBotService.supabase is not None
    message_cache,      \* TelegramBotService.message_cache, in insertion order
    chat_cache,         \* TelegramBotService.chat_cache, in insertion order
    remote_messages,    \* the rows of the remote table 'messages'
    remote_conversations, \* the rows of the remote table 'conversations'
    upd,                \* the handler of the update being processed
    rd,                 \* the last operation on the store: its arguments and
                        \* the outcome of its remote call
    running,            \* the handlers of updates that overlap: where each
                        \* one is suspended, its chat and its dispatch number
    dispatched,         \* the number of updates dispatched to those handlers
    persisted,          \* the calls of _save_message, in the order made: the
                        \* chat and the dispatch number of the update
    conv_calls,         \* the writes of _save_conversation, in the order
                        \* made: the chat, insert or update, and the outcome
    app,                \* TelegramBotApp: is_running, shutdown_event and
                        \* where stop() is suspended
    retry               \* a call of async_retry: its arguments, where it is
                        \* suspended, the calls of func and the waits made

rlVars == <<max_requests, window_seconds, requests, calls, handler>>

cacheVars == <<max_size, ttl_seconds, cache, last>>

supVars == <<is_initialized, is_polling, reconnect_attempts,
             max_reconnect_attempts, connection_healthy, bot_info, registered,
             task, g>>

storeVars == <<supabase, message_cache, chat_cache, remote_messages,
               remote_conversations, upd, rd>>

dispVars == <<running, dispatched, persisted, conv_calls>>

restVars == <<dispVars, app, retry>>

vars == <<now, rlVars, cacheVars, supVars, storeVars, restVars>>

\* ------------------------------------------------------------------ bounds
MaxTime == 3
MaxRequests == 3
MaxWindow == 2
MaxCalls == 4

MaxSize == 2
MaxTtl == 2
MaxReconnect == 2
MaxSupCalls == 3
MaxStoreTime == 1
MaxMessages == 2
MaxLimit == 1
MaxDispatch == 2
MaxAttempts == 4
MaxDelay == 3

Keys == {"u1", "u2"}
CacheKeys == {"a", "b", "c"}
Tasks == {"t1", "t2"}
Values == {"v1", "v2"}
Handlers == {"h1", "h2"}
Chats == {"42", "7"}
WriteOutcomes == {"ok", "no_data", "raises"}
ReadOutcomes == {"ok", "raises"}

None == <<>>
Some(x) == <<x>>

\* the record of "no cache operation yet"
NoOp == [op |-> "none", key |-> None, value |-> None, ret |-> None,
         pre |-> <<>>, at |-> 0, expired |-> {}, oldest |-> {}]

\* the state in which the rate limiter takes no part
RateLimiterIdle ==
    /\ max_requests = 0
    /\ window_seconds = 1
    /\ requests = <<>>
    /\ calls = <<>>
    /\ handler = [h \in Handlers |-> [pc |-> "idle", user |-> None, wait |-> None]]

\* the state in which the cache takes no part
CacheIdle ==
    /\ max_size = 0
    /\ ttl_seconds = 1
    /\ cache = <<>>
    /\ last = NoOp

\* the supervisor's fields as a record
Fields(init, polling, attempts, healthy, info) ==
    [is_initialized |-> init, is_polling |-> polling,
     reconnect_attempts |-> attempts, connection_healthy |-> healthy,
     bot_info |-> info]

\* TelegramBotService.__init__: the fields of a new supervisor
NewFields == Fields(FALSE, FALSE, 0, FALSE, None)

\* a coroutine that has not called the supervisor yet
\* pc: where it is suspended; op: the method it called; cont: what the
\* method it is in returns to; ret: the value returned; entry: the fields
\* when it called (kept while the call runs); was_polling: is_polling when
\* it called; unchanged: the fields on return are those on call;
\* exit_polling: is_polling on return; starts: the start attempts of this
\* call; in_backoff: a reconnect backoff was in progress when it called;
\* webhook_failed: delete_webhook raised during this call of initialize();
\* after_stop: this is a start_polling() and the call made just before it
\* was a stop_polling()
IdleTask == [pc |-> "idle", op |-> "none", cont |-> "return", ret |-> None,
             entry |-> NewFields, was_polling |-> FALSE, unchanged |-> TRUE,
             exit_polling |-> FALSE, starts |-> 0, in_backoff |-> FALSE,
             webhook_failed |-> FALSE, after_stop |-> FALSE]

\* _setup_handlers: the handlers that __init__ adds to the application
setup_handlers ==
    <<"start", "help", "status", "text", "photo", "audio", "video", "voice",
      "contact", "location">>

\* ext_calls: calls made from outside; overlap: two calls have been in
\* progress at once; start_failures, start_successes: outcomes of the start
\* attempts; stopped_in_backoff: a stop_polling() called during a backoff
\* has returned with polling off, and start_polling() was not called since;
\* last_stop: the method called last is stop_polling()
NoHistory == [ext_calls |-> 0, overlap |-> FALSE, last_stop |-> FALSE,
              start_failures |-> 0, start_successes |-> 0,
              stopped_in_backoff |-> FALSE]

\* the state in which the supervisor takes no part
SupervisorIdle ==
    /\ is_initialized = FALSE
    /\ is_polling = FALSE
    /\ reconnect_attempts = 0
    /\ max_reconnect_attempts = 1
    /\ connection_healthy = FALSE
    /\ bot_info = None
    /\ registered = setup_handlers
    /\ task = [t \in Tasks |-> IdleTask]
    /\ g = NoHistory

\* the record of "no store operation yet"
\* op: the operation; chat, limit: its arguments; outcome: what its remote
\* call did; id: the id of the record it saved; raised: an exception left it
NoRead == [op |-> "none", chat |-> None, limit |-> 0, outcome |-> "none",
           id |-> 0, raised |-> FALSE]

\* no update is being handled
NoUpdate == [pc |-> "idle", chat |-> None]

\* no handler of the overlapping kind is running
NoRunning == [pc |-> "idle", chat |-> None, n |-> 0]

\* TelegramBotApp before start(), and no stop() in progress
\* admin: settings.admin_chat_id is set; notified: what became of the
\* notification of the operator; start: where start() is suspended;
\* stop_in_backoff: stop() was called while start() was in the backoff
\* wait of start_polling's reconnect path
AppIdle == [pc |-> "idle", is_running |-> FALSE, shutdown_event |-> FALSE,
            admin |-> FALSE, notified |-> "none", start |-> "none",
            stop_in_backoff |-> FALSE]

\* no call of async_retry
\* attempt: the loop variable; calls: the calls of func made; waits: the
\* arguments of asyncio.sleep, in order; result: what async_retry returned;
\* error: the attempt whose exception async_retry raised
RetryIdle == [pc |-> "idle", max_attempts |-> 0, delay |-> 0, attempt |-> 0,
              calls |-> 0, waits |-> <<>>, result |-> None, error |-> None]

\* the state in which the overlapping handlers, the application object and
\* async_retry take no part
RestIdle ==
    /\ running = [h \in Handlers |-> NoRunning]
    /\ dispatched = 0
    /\ persisted = <<>>
    /\ conv_calls = <<>>
    /\ app = AppIdle
    /\ retry = RetryIdle

\* the state in which the message store takes no part
StoreIdle ==
    /\ supabase = FALSE
    /\ message_cache = <<>>
    /\ chat_cache = <<>>
    /\ remote_messages = <<>>
    /\ remote_conversations = <<>>
    /\ upd = NoUpdate
    /\ rd = NoRead

\* ------------------------------------------------------------ RateLimiter

\* self.requests[user_id] once `if user_id not in self.requests` has run
requests_of(user_id) ==
    IF user_id \in DOMAIN requests THEN requests[user_id] ELSE <<>>

\* (mutation) an instant exactly window_seconds old is kept
in_window_inclusive(req_time) == now - req_time <= window_seconds

\* the filter of the list comprehension: now - req_time < self.window_seconds
in_window(req_time) == now - req_time < window_seconds

\* the list comprehension that drops the old requests
purged(user_id) == SelectSeq(requests_of(user_id), in_window)

\* (mutation) the limit compared with > instead of >=
over_limit_off_by_one(n) == n > max_requests

\* the limit check: `if len(...) >= self.max_requests: return False`
over_limit(n) == n >= max_requests

\* the value is_allowed returns
is_allowed_result(user_id) == ~over_limit(Len(purged(user_id)))

\* (mutation) the instant is recorded for a rejected request too
is_allowed_requests_always_records(user_id) ==
    [k \in DOMAIN requests \cup {user_id} |->
        IF k = user_id THEN Append(purged(user_id), now) ELSE requests[k]]

\* self.requests after is_allowed(user_id)
is_allowed_requests(user_id) ==
    [k \in DOMAIN requests \cup {user_id} |->
        IF k = user_id
        THEN IF is_allowed_result(user_id)
             THEN Append(purged(user_id), now)
             ELSE purged(user_id)
        ELSE requests[k]]

\* RateLimiter.get_reset_time: reads the stored list as it is (no purge)
RECURSIVE seq_min(_)
seq_min(s) ==
    IF Len(s) = 1 THEN s[1]
    ELSE LET m == seq_min(Tail(s)) IN IF s[1] <= m THEN s[1] ELSE m

\* the body of get_reset_time, over a given value of self.requests
reset_time_in(reqs, user_id) ==
    IF user_id \notin DOMAIN reqs \/ reqs[user_id] = <<>>
    THEN None
    ELSE Some(seq_min(reqs[user_id]) + window_seconds)

get_reset_time(user_id) == reset_time_in(requests, user_id)

\* RateLimiter.is_allowed is a plain (non-async) method: it has no suspension
\* point, so on the event loop it runs as one step.
is_allowed(user_id) ==
    /\ requests' = is_allowed_requests(user_id)
    /\ calls' = Append(calls, [key |-> user_id, t |-> now,
                                ok |-> is_allowed_result(user_id),
                                before |-> requests_of(user_id),
                                after |-> is_allowed_requests(user_id)[user_id]])

\* TelegramBotApp._check_rate_limit up to its first await (reply_text), or
\* to its return when the request is admitted.
check_rate_limit(h, user_id) ==
    /\ handler[h].pc = "idle"
    /\ Len(calls) < MaxCalls
    /\ is_allowed(user_id)
    /\ handler' = [handler EXCEPT ![h] =
          IF is_allowed_result(user_id)
          THEN [pc |-> "handling", user |-> Some(user_id), wait |-> None]
          ELSE LET reset_time == reset_time_in(is_allowed_requests(user_id), user_id) IN
               IF reset_time # None
               THEN [pc |-> "reply_wait", user |-> Some(user_id),
                     wait |-> Some(reset_time[1] - now)]
               ELSE [pc |-> "reply_plain", user |-> Some(user_id), wait |-> None]]
    /\ UNCHANGED <<now, max_requests, window_seconds, cacheVars, supVars, storeVars, restVars>>

\* the awaited reply_text of a rejected request completes; returns False
rate_limit_reply_sent(h) ==
    /\ handler[h].pc \in {"reply_wait", "reply_plain"}
    /\ handler' = [handler EXCEPT ![h] = [pc |-> "idle", user |-> None, wait |-> None]]
    /\ UNCHANGED <<now, max_requests, window_seconds, requests, calls, cacheVars, supVars,
                   storeVars, restVars>>

\* the command handler that was admitted finishes its own awaits
handler_done(h) ==
    /\ handler[h].pc = "handling"
    /\ handler' = [handler EXCEPT ![h] = [pc |-> "idle", user |-> None, wait |-> None]]
    /\ UNCHANGED <<now, max_requests, window_seconds, requests, calls, cacheVars, supVars,
                   storeVars, restVars>>

\* the wall clock advances
TickRL ==
    /\ now < MaxTime
    /\ now' = now + 1
    /\ UNCHANGED <<rlVars, cacheVars, supVars, storeVars, restVars>>

\* RateLimiter.__init__ and the idle handlers
InitRateLimiter ==
    /\ now = 0
    /\ max_requests \in 0..MaxRequests
    /\ window_seconds \in 1..MaxWindow
    /\ requests = <<>>
    /\ calls = <<>>
    /\ handler = [h \in Handlers |-> [pc |-> "idle", user |-> None, wait |-> None]]
    /\ CacheIdle
    /\ SupervisorIdle
    /\ StoreIdle
    /\ RestIdle

NextRateLimiter ==
    \/ \E h \in Handlers, u \in Keys : check_rate_limit(h, u)
    \/ \E h \in Handlers : rate_limit_reply_sent(h)
    \/ \E h \in Handlers : handler_done(h)
    \/ TickRL

SpecRateLimiter == InitRateLimiter /\ [][NextRateLimiter]_vars

\* ----------------------------------------------------------- CacheManager

cache_keys(c) == {c[i].key : i \in 1..Len(c)}

\* the position of `key in self.cache`
index_of(c, key) == CHOOSE i \in 1..Len(c) : c[i].key = key

\* the TTL test of get and of _cleanup_old_entries: now - timestamp > ttl
is_expired(timestamp) == now - timestamp > ttl_seconds

\* `del self.cache[key]` for every key of ks
without_keys(c, ks) == SelectSeq(c, LAMBDA e : e.key \notin ks)

\* (mutation) get returns the value of an expired entry
get_result_ignores_ttl(key) ==
    IF key \notin cache_keys(cache) THEN None
    ELSE Some(cache[index_of(cache, key)].value)

\* the value CacheManager.get returns
get_result(key) ==
    IF key \notin cache_keys(cache) THEN None
    ELSE LET e == cache[index_of(cache, key)] IN
         IF is_expired(e.timestamp) THEN None ELSE Some(e.value)

\* (mutation) get stamps the entry it returns with the current instant
get_cache_refreshes(key) ==
    IF key \notin cache_keys(cache) THEN cache
    ELSE LET e == cache[index_of(cache, key)] IN
         IF is_expired(e.timestamp) THEN without_keys(cache, {key})
         ELSE [cache EXCEPT ![index_of(cache, key)].timestamp = now]

\* self.cache after CacheManager.get
get_cache(key) ==
    IF key \notin cache_keys(cache) THEN cache
    ELSE LET e == cache[index_of(cache, key)] IN
         IF is_expired(e.timestamp) THEN without_keys(cache, {key}) ELSE cache

\* first loop of _cleanup_old_entries: the keys whose entry has expired
expired_keys(c) == {c[i].key : i \in {j \in 1..Len(c) : is_expired(c[j].timestamp)}}

\* sorted(self.cache.items(), key=timestamp) is stable: entry i comes before
\* entry j when it is older, or as old and earlier in the dict
sorted_before(c, i, j) ==
    \/ c[i].timestamp < c[j].timestamp
    \/ c[i].timestamp = c[j].timestamp /\ i < j

\* (mutation) the newest entries are taken instead of the oldest
sorted_prefix_keys_newest(c, n) ==
    {c[i].key : i \in {j \in 1..Len(c) :
        Cardinality({h \in 1..Len(c) : sorted_before(c, j, h)}) < n}}

\* the keys of sorted_items[:n]
sorted_prefix_keys(c, n) ==
    {c[i].key : i \in {j \in 1..Len(c) :
        Cardinality({h \in 1..Len(c) : sorted_before(c, h, j)}) < n}}

\* second part of _cleanup_old_entries: the keys deleted because the cache
\* is still full, sorted_items[:len(self.cache) - self.max_size + 1]
oldest_keys(c) ==
    IF Len(c) >= max_size
    THEN sorted_prefix_keys(c, Len(c) - max_size + 1)
    ELSE {}

\* self.cache after _cleanup_old_entries
cleanup_old_entries(c) ==
    LET c1 == without_keys(c, expired_keys(c))
    IN  without_keys(c1, oldest_keys(c1))

\* `self.cache[key] = (value, now)`: in place for a key of the dict, else
\* at the end
store(c, key, value) ==
    LET e == [key |-> key, value |-> value, timestamp |-> now] IN
    IF key \in cache_keys(c) THEN [c EXCEPT ![index_of(c, key)] = e]
    ELSE Append(c, e)

\* the guard of set: `if len(self.cache) >= self.max_size`
cache_full(c) == Len(c) >= max_size

\* CacheManager.set
cache_set(key, value) ==
    LET c1 == IF cache_full(cache) THEN cleanup_old_entries(cache) ELSE cache
        exp == IF cache_full(cache) THEN expired_keys(cache) ELSE {}
        old == IF cache_full(cache)
               THEN oldest_keys(without_keys(cache, expired_keys(cache)))
               ELSE {}
    IN  /\ cache' = store(c1, key, value)
        /\ last' = [op |-> "set", key |-> Some(key), value |-> Some(value),
                    ret |-> None, pre |-> cache, at |-> now,
                    expired |-> exp, oldest |-> old]
        /\ UNCHANGED <<now, max_size, ttl_seconds, rlVars, supVars, storeVars, restVars>>

\* CacheManager.get
cache_get(key) ==
    /\ cache' = get_cache(key)
    /\ last' = [op |-> "get", key |-> Some(key), value |-> None,
                ret |-> get_result(key), pre |-> cache, at |-> now,
                expired |-> {}, oldest |-> {}]
    /\ UNCHANGED <<now, max_size, ttl_seconds, rlVars, supVars, storeVars, restVars>>

\* CacheManager.delete
cache_delete(key) ==
    /\ cache' = without_keys(cache, {key})
    /\ last' = [op |-> "delete", key |-> Some(key), value |-> None,
                ret |-> None, pre |-> cache, at |-> now,
                expired |-> {}, oldest |-> {}]
    /\ UNCHANGED <<now, max_size, ttl_seconds, rlVars, supVars, storeVars, restVars>>

\* CacheManager.clear
cache_clear ==
    /\ cache' = <<>>
    /\ last' = [op |-> "clear", key |-> None, value |-> None,
                ret |-> None, pre |-> cache, at |-> now,
                expired |-> {}, oldest |-> {}]
    /\ UNCHANGED <<now, max_size, ttl_seconds, rlVars, supVars, storeVars, restVars>>

\* the wall clock advances
TickCache ==
    /\ now < MaxTime
    /\ now' = now + 1
    /\ UNCHANGED <<rlVars, cacheVars, supVars, storeVars, restVars>>

\* CacheManager.__init__
InitCache ==
    /\ now = 0
    /\ max_size \in 0..MaxSize
    /\ ttl_seconds \in 1..MaxTtl
    /\ cache = <<>>
    /\ last = NoOp
    /\ RateLimiterIdle
    /\ SupervisorIdle
    /\ StoreIdle
    /\ RestIdle

NextCache ==
    \/ \E k \in CacheKeys, v \in Values : cache_set(k, v)
    \/ \E k \in CacheKeys : cache_get(k)
    \/ \E k \in CacheKeys : cache_delete(k)
    \/ cache_clear
    \/ TickCache

SpecCache == InitCache /\ [][NextCache]_vars

\* ----------------------------------------------------- TelegramBotService
\* Every coroutine runs on one event loop: the code between two awaits of a
\* network call is one step.  A step works on st = [s: the supervisor's
\* fields, k: the running coroutine, g: the history].

Sup == Fields(is_initialized, is_polling, reconnect_attempts,
              connection_healthy, bot_info)

St(t) == [s |-> Sup, k |-> task[t], g |-> g, h |-> registered]

CommitSupervisor(t, st) ==
    /\ is_initialized' = st.s.is_initialized
    /\ is_polling' = st.s.is_polling
    /\ reconnect_attempts' = st.s.reconnect_attempts
    /\ connection_healthy' = st.s.connection_healthy
    /\ bot_info' = st.s.bot_info
    /\ registered' = st.h
    /\ task' = [task EXCEPT ![t] = st.k]
    /\ g' = st.g
    /\ UNCHANGED max_reconnect_attempts

Commit(t, st) ==
    /\ CommitSupervisor(t, st)
    /\ UNCHANGED <<now, rlVars, cacheVars, storeVars, restVars>>

\* the externally called method returns value v to its caller
return_to_caller(st, v) ==
    [st EXCEPT !.k.pc = "done", !.k.ret = v, !.k.entry = NewFields,
               !.k.unchanged = (st.s = st.k.entry),
               !.k.exit_polling = st.s.is_polling,
               !.g.stopped_in_backoff =
                   IF st.k.op = "stop_polling" /\ st.k.in_backoff /\ ~st.s.is_polling
                   THEN TRUE ELSE @]

\* (mutation) start_polling adds the handlers once more
start_polling_try_adds_handlers(st) ==
    IF st.s.is_polling
    THEN return_to_caller(st, None)
    ELSE [st EXCEPT !.s.is_polling = TRUE, !.k.pc = "app_initialize",
                    !.k.starts = @ + 1, !.h = @ \o setup_handlers]

\* (mutation) start_polling without its test of is_polling
start_polling_try_without_test(st) ==
    [st EXCEPT !.s.is_polling = TRUE, !.k.pc = "app_initialize",
               !.k.starts = @ + 1]

\* start_polling from `if self.is_polling` to the first await of the try
start_polling_try(st) ==
    IF st.s.is_polling
    THEN return_to_caller(st, None)
    ELSE [st EXCEPT !.s.is_polling = TRUE, !.k.pc = "app_initialize",
                    !.k.starts = @ + 1]

\* initialize() returns v: to start_polling, which ignores v, or to the caller
initialize_return(st, v) ==
    IF st.k.cont = "start_polling"
    THEN start_polling_try([st EXCEPT !.k.cont = "return"])
    ELSE return_to_caller(st, Some(v))

\* initialize up to its first await
initialize(st) ==
    IF st.s.is_initialized
    THEN initialize_return(st, TRUE)
    ELSE [st EXCEPT !.k.pc = "get_me"]

\* start_polling up to its first await
start_polling(st) ==
    IF ~st.s.is_initialized
    THEN initialize([st EXCEPT !.k.cont = "start_polling"])
    ELSE start_polling_try(st)

\* stop_polling returns: to _handle_polling_error, which goes on to
\* start_polling(), or to the caller
stop_polling_return(st) ==
    IF st.k.cont = "reconnect"
    THEN start_polling([st EXCEPT !.k.cont = "return"])
    ELSE return_to_caller(st, None)

\* stop_polling up to its first await
stop_polling(st) ==
    IF ~st.s.is_polling
    THEN stop_polling_return(st)
    ELSE [st EXCEPT !.k.pc = "updater_stop"]

\* (mutation) a completed stop also clears the attempt counter
stop_polling_clear_resets_attempts(st) ==
    [st EXCEPT !.s.is_polling = FALSE, !.s.reconnect_attempts = 0]

\* the last statement of stop_polling's try: self.is_polling = False
stop_polling_clear(st) == [st EXCEPT !.s.is_polling = FALSE]

\* the condition of _handle_polling_error for another attempt
may_reconnect(attempts) == attempts < max_reconnect_attempts

\* _handle_polling_error up to its first await
handle_polling_error(st) ==
    LET st1 == [st EXCEPT !.s.reconnect_attempts = @ + 1,
                          !.s.connection_healthy = FALSE]
    IN  IF may_reconnect(st1.s.reconnect_attempts)
        THEN [st1 EXCEPT !.k.pc = "backoff"]
        ELSE stop_polling([st1 EXCEPT !.k.cont = "return"])

\* the except clause of start_polling
start_polling_failed(st) ==
    handle_polling_error([st EXCEPT !.s.is_polling = FALSE,
                                    !.g.start_failures = @ + 1])

\* the statements of initialize after _setup_bot_commands
initialize_succeeded(st) ==
    initialize_return([st EXCEPT !.s.is_initialized = TRUE,
                                 !.s.connection_healthy = TRUE,
                                 !.s.reconnect_attempts = 0], TRUE)

\* (mutation) the except clause of initialize counts a reconnect attempt
initialize_failed_counts_attempt(st) ==
    initialize_return([st EXCEPT !.s.connection_healthy = FALSE,
                                 !.s.reconnect_attempts = @ + 1], FALSE)

\* the except clause of initialize
initialize_failed(st) ==
    initialize_return([st EXCEPT !.s.connection_healthy = FALSE], FALSE)

\* a coroutine calls a method of the supervisor
NewCall(t, name) ==
    [s |-> Sup,
     k |-> [IdleTask EXCEPT !.op = name, !.entry = Sup, !.pc = "running",
                            !.was_polling = is_polling,
                            !.in_backoff = \E u \in Tasks : task[u].pc = "backoff",
                            !.after_stop = (name = "start_polling" /\ g.last_stop)],
     h |-> registered,
     g |-> [g EXCEPT !.ext_calls = @ + 1, !.last_stop = (name = "stop_polling"),
                     !.overlap = @ \/ \E u \in Tasks \ {t} :
                                        task[u].pc \notin {"idle", "done"},
                     !.stopped_in_backoff = IF name = "start_polling" THEN FALSE ELSE @]]

CanCall(t) ==
    /\ task[t].pc \in {"idle", "done"}
    /\ g.ext_calls < MaxSupCalls

call_initialize(t) ==
    /\ CanCall(t)
    /\ Commit(t, initialize(NewCall(t, "initialize")))

call_start_polling(t) ==
    /\ CanCall(t)
    /\ Commit(t, start_polling(NewCall(t, "start_polling")))

call_stop_polling(t) ==
    /\ CanCall(t)
    /\ Commit(t, stop_polling(NewCall(t, "stop_polling")))

\* `await self.application.bot.get_me()` returns or raises
get_me_done(t, ok) ==
    /\ task[t].pc = "get_me"
    /\ Commit(t, IF ok
                 THEN [St(t) EXCEPT !.s.bot_info = Some("bot"), !.k.pc = "delete_webhook"]
                 ELSE initialize_failed(St(t)))

\* _clear_webhook: delete_webhook returns, or raises and is logged
delete_webhook_done(t, ok) ==
    /\ task[t].pc = "delete_webhook"
    /\ Commit(t, [St(t) EXCEPT !.k.pc = "set_my_commands",
                               !.k.webhook_failed =
                                   @ \/ (~ok /\ task[t].op = "initialize")])

\* _setup_bot_commands: set_my_commands returns, or raises and is logged
set_my_commands_done(t, ok) ==
    /\ task[t].pc = "set_my_commands"
    /\ ok \in BOOLEAN
    /\ Commit(t, initialize_succeeded(St(t)))

\* `await self.application.initialize()` returns or raises
app_initialize_done(t, ok) ==
    /\ task[t].pc = "app_initialize"
    /\ Commit(t, IF ok THEN [St(t) EXCEPT !.k.pc = "app_start"]
                 ELSE start_polling_failed(St(t)))

\* `await self.application.start()` returns or raises
app_start_done(t, ok) ==
    /\ task[t].pc = "app_start"
    /\ Commit(t, IF ok THEN [St(t) EXCEPT !.k.pc = "updater_start_polling"]
                 ELSE start_polling_failed(St(t)))

\* `await self.application.updater.start_polling(...)` returns or raises
updater_start_polling_done(t, ok) ==
    /\ task[t].pc = "updater_start_polling"
    /\ Commit(t, IF ok
                 THEN return_to_caller([St(t) EXCEPT !.g.start_successes = @ + 1], None)
                 ELSE start_polling_failed(St(t)))

\* `await asyncio.sleep(5 * self.reconnect_attempts)` is over: stop_polling()
\* and then start_polling()
backoff_done(t) ==
    /\ task[t].pc = "backoff"
    /\ Commit(t, stop_polling([St(t) EXCEPT !.k.cont = "reconnect"]))

\* `await self.application.updater.stop()` returns or raises
updater_stop_done(t, ok) ==
    /\ task[t].pc = "updater_stop"
    /\ Commit(t, IF ok THEN [St(t) EXCEPT !.k.pc = "app_stop"]
                 ELSE stop_polling_return(St(t)))

\* `await self.application.stop()` returns or raises
app_stop_done(t, ok) ==
    /\ task[t].pc = "app_stop"
    /\ Commit(t, IF ok THEN [St(t) EXCEPT !.k.pc = "app_shutdown"]
                 ELSE stop_polling_return(St(t)))

\* `await self.application.shutdown()` returns or raises
app_shutdown_done(t, ok) ==
    /\ task[t].pc = "app_shutdown"
    /\ Commit(t, IF ok THEN stop_polling_return(stop_polling_clear(St(t)))
                 ELSE stop_polling_return(St(t)))

\* TelegramBotService.__init__
Init ==
    /\ now = 0
    /\ is_initialized = FALSE
    /\ is_polling = FALSE
    /\ reconnect_attempts = 0
    /\ max_reconnect_attempts \in 1..MaxReconnect
    /\ connection_healthy = FALSE
    /\ bot_info = None
    /\ registered = setup_handlers
    /\ task = [t \in Tasks |-> IdleTask]
    /\ g = NoHistory
    /\ RateLimiterIdle
    /\ CacheIdle
    /\ StoreIdle
    /\ RestIdle

Next ==
    \/ \E t \in Tasks : call_initialize(t)
    \/ \E t \in Tasks : call_start_polling(t)
    \/ \E t \in Tasks : call_stop_polling(t)
    \/ \E t \in Tasks, ok \in BOOLEAN : get_me_done(t, ok)
    \/ \E t \in Tasks, ok \in BOOLEAN : delete_webhook_done(t, ok)
    \/ \E t \in Tasks, ok \in BOOLEAN : set_my_commands_done(t, ok)
    \/ \E t \in Tasks, ok \in BOOLEAN : app_initialize_done(t, ok)
    \/ \E t \in Tasks, ok \in BOOLEAN : app_start_done(t, ok)
    \/ \E t \in Tasks, ok \in BOOLEAN : updater_start_polling_done(t, ok)
    \/ \E t \in Tasks : backoff_done(t)
    \/ \E t \in Tasks, ok \in BOOLEAN : updater_stop_done(t, ok)
    \/ \E t \in Tasks, ok \in BOOLEAN : app_stop_done(t, ok)
    \/ \E t \in Tasks, ok \in BOOLEAN : app_shutdown_done(t, ok)

Spec == Init /\ [][Next]_vars

\* ------------------------------------------------------------ message store
\* _process_message, _extract_message_content, _update_chat_info,
\* _save_conversation and _save_message have no await that suspends (the
\* remote client is called synchronously), so the processing of one update
\* is one step; so are get_messages and get_conversations.  The application
\* is built without concurrent_updates: updates are handled one at a time.

\* message.from_user of an update of a private chat
sender_of(chat_id) == IF chat_id = "42" THEN "u1" ELSE "u2"

\* ServiceMessage(id=str(uuid.uuid4()), ..., timestamp=message.date, ...)
service_message(chat_id, date) ==
    [id |-> Len(message_cache) + 1, chat_id |-> chat_id,
     user_id |-> Some(sender_of(chat_id)), timestamp |-> date,
     direction |-> "incoming", status |-> "delivered"]

\* (mutation) the record of a message sent is marked delivered
outgoing_message_delivered(chat_id, date) ==
    [id |-> Len(message_cache) + 1, chat_id |-> chat_id,
     user_id |-> None, timestamp |-> date,
     direction |-> "outgoing", status |-> "delivered"]

\* the ServiceMessage of send_message_with_file: no user_id,
\* direction=MessageDirection.OUTGOING, status=MessageStatus.SENT
outgoing_message(chat_id, date) ==
    [id |-> Len(message_cache) + 1, chat_id |-> chat_id,
     user_id |-> None, timestamp |-> date,
     direction |-> "outgoing", status |-> "sent"]

\* the dict `data` that _save_message inserts into the table 'messages'
row_of_message(m) ==
    [id |-> m.id, conversation_id |-> m.chat_id,
     sender_id |-> IF m.user_id = None THEN "bot" ELSE m.user_id[1],
     timestamp |-> m.timestamp, direction |-> m.direction, status |-> m.status]

\* the ServiceMessage that get_messages builds from a row
message_of_row(row) ==
    [id |-> row.id, chat_id |-> row.conversation_id,
     user_id |-> Some(row.sender_id), timestamp |-> row.timestamp,
     direction |-> row.direction, status |-> row.status]

\* `d[k] = v` on a dict kept as a sequence of records with field id: in
\* place for a key of the dict, else at the end
dict_put(d, v) ==
    IF \E i \in 1..Len(d) : d[i].id = v.id
    THEN [i \in 1..Len(d) |-> IF d[i].id = v.id THEN v ELSE d[i]]
    ELSE Append(d, v)

\* (mutation) the cache is written after the remote insert, so an insert
\* that raises skips it
save_message_remote_first(mc, rm, m, outcome) ==
    [mc |-> IF supabase /\ outcome = "raises" THEN mc ELSE dict_put(mc, m),
     rm |-> IF supabase /\ outcome = "ok" THEN Append(rm, row_of_message(m)) ELSE rm,
     raised |-> FALSE]

\* _save_message: the cache is written first; the insert stores the row
\* ("ok"), answers without data ("no_data") or raises ("raises"), and the
\* except clause keeps what it raises inside the method
save_message(mc, rm, m, outcome) ==
    [mc |-> dict_put(mc, m),
     rm |-> IF supabase /\ outcome = "ok" THEN Append(rm, row_of_message(m)) ELSE rm,
     raised |-> FALSE]

\* (mutation) _save_conversation inserts without looking for the row
save_conversation_write_always_inserts(rc, chat_id) == "insert"

\* the write that _save_conversation chooses: `if existing.data` update,
\* else insert
save_conversation_write(rc, chat_id) ==
    IF \E i \in 1..Len(rc) : rc[i].id = chat_id THEN "update" ELSE "insert"

\* _save_conversation: select, then update or insert; whatever fails is
\* caught and logged and leaves the table as it was
save_conversation(rc, chat_id, outcome) ==
    LET data == [id |-> chat_id, updated_at |-> now] IN
    IF supabase /\ outcome = "ok"
    THEN IF save_conversation_write(rc, chat_id) = "update"
         THEN [i \in 1..Len(rc) |-> IF rc[i].id = chat_id THEN data ELSE rc[i]]
         ELSE Append(rc, data)
    ELSE rc

\* _update_chat_info: self.chat_cache[chat_id] = chat_info
update_chat_info(cc, chat_id) ==
    dict_put(cc, [id |-> chat_id, last_activity |-> now])

\* messages.sort(key=timestamp, reverse=True) is stable: element i comes
\* before element j when it is newer, or as new and earlier in the list
newer_first(s, i, j) ==
    \/ s[i].timestamp > s[j].timestamp
    \/ s[i].timestamp = s[j].timestamp /\ i < j

\* (mutation) the sort is ascending
sorted_newest_first_ascending(s) ==
    [r \in 1..Len(s) |->
        s[CHOOSE j \in 1..Len(s) :
            Cardinality({h \in 1..Len(s) : newer_first(s, j, h)}) = r - 1]]

sorted_newest_first(s) ==
    [r \in 1..Len(s) |->
        s[CHOOSE j \in 1..Len(s) :
            Cardinality({h \in 1..Len(s) : newer_first(s, h, j)}) = r - 1]]

\* the Python slice s[:limit]
slice_to(s, limit) ==
    LET n == IF limit >= 0
             THEN IF limit < Len(s) THEN limit ELSE Len(s)
             ELSE IF Len(s) + limit > 0 THEN Len(s) + limit ELSE 0
    IN  SubSeq(s, 1, n)

\* `if chat_id:` then keep the messages of that chat
of_chat(s, chat) ==
    IF chat = None THEN s ELSE SelectSeq(s, LAMBDA m : m.chat_id = chat[1])

\* the cache branch of get_messages, over cache contents mc
get_messages_from(mc, chat, limit) ==
    slice_to(sorted_newest_first(of_chat(mc, chat)), limit)

\* the query of the remote branch of get_messages:
\* select('*').order('timestamp', desc=True).eq('conversation_id', ...).limit(...)
select_messages(rm, chat, limit) ==
    LET rows == IF chat = None THEN rm
                ELSE SelectSeq(rm, LAMBDA r : r.conversation_id = chat[1])
    IN  slice_to(sorted_newest_first(rows), limit)

\* the value get_messages returns; a remote read that raises is caught by
\* the except clause, which returns []
get_messages_result(chat, limit, outcome) ==
    IF supabase
    THEN IF outcome = "raises" THEN <<>>
         ELSE LET rows == select_messages(remote_messages, chat, limit)
              IN  [i \in 1..Len(rows) |-> message_of_row(rows[i])]
    ELSE get_messages_from(message_cache, chat, limit)

\* order('updated_at', desc=True) of the remote branch of get_conversations
updated_first(s, i, j) ==
    \/ s[i].updated_at > s[j].updated_at
    \/ s[i].updated_at = s[j].updated_at /\ i < j

select_conversations(rc) ==
    [r \in 1..Len(rc) |->
        rc[CHOOSE j \in 1..Len(rc) :
            Cardinality({h \in 1..Len(rc) : updated_first(rc, h, j)}) = r - 1]]

\* (mutation) a remote read error falls back to the cached chats
get_conversations_result_falls_back(outcome) ==
    IF supabase
    THEN IF outcome = "raises" THEN chat_cache
         ELSE select_conversations(remote_conversations)
    ELSE chat_cache

\* the value get_conversations returns: the remote rows, [] when the read
\* raises, or list(self.chat_cache.values())
get_conversations_result(outcome) ==
    IF supabase
    THEN IF outcome = "raises" THEN <<>>
         ELSE select_conversations(remote_conversations)
    ELSE chat_cache

\* the outcomes of the calls that are reached: no remote call without a
\* remote store, nor after the content extraction has raised
Outcomes(ext, conv, msg) ==
    /\ ext \in {"ok", "raises"}
    /\ conv \in WriteOutcomes
    /\ msg \in WriteOutcomes
    /\ (~supabase \/ ext = "raises") => conv = "ok" /\ msg = "ok"

\* (mutation) a failure of the content extraction stops the polling
process_message_failure_stops_polling(ext) ==
    IF ext = "raises" THEN FALSE ELSE is_polling

\* is_polling after _process_message: its except clause only logs
process_message_polling(ext) == is_polling

\* _process_message: the content extraction returns or raises (ext); then
\* _update_chat_info with _save_conversation (conv), then _save_message (msg)
process_message(chat_id, date, ext, conv, msg) ==
    LET m == service_message(chat_id, date)
        r == save_message(message_cache, remote_messages, m, msg)
    IN  /\ is_polling' = process_message_polling(ext)
        /\ IF ext = "raises"
           THEN /\ UNCHANGED <<message_cache, chat_cache, remote_messages,
                               remote_conversations>>
                /\ rd' = [NoRead EXCEPT !.op = "process_failed",
                                        !.chat = Some(chat_id)]
           ELSE /\ chat_cache' = update_chat_info(chat_cache, chat_id)
                /\ remote_conversations' =
                       save_conversation(remote_conversations, chat_id, conv)
                /\ message_cache' = r.mc
                /\ remote_messages' = r.rm
                /\ rd' = [NoRead EXCEPT !.op = "save", !.chat = Some(chat_id),
                                        !.outcome = msg, !.id = m.id,
                                        !.raised = r.raised]
        /\ UNCHANGED <<now, supabase, rlVars, cacheVars, is_initialized,
                       reconnect_attempts, max_reconnect_attempts,
                       connection_healthy, bot_info, registered, task, g>>

\* _handle_message (and the handlers of photo, audio, video, voice, contact
\* and location): _process_message, then the await of reply_text
handle_message(chat_id, date, ext, conv, msg) ==
    /\ upd.pc = "idle"
    /\ is_polling
    /\ Len(message_cache) < MaxMessages
    /\ date \in 0..now
    /\ Outcomes(ext, conv, msg)
    /\ process_message(chat_id, date, ext, conv, msg)
    /\ upd' = [pc |-> "reply_text", chat |-> Some(chat_id)]
    /\ UNCHANGED restVars

\* the awaited reply_text of _handle_message returns or raises
reply_text_done(ok) ==
    /\ upd.pc = "reply_text"
    /\ upd' = NoUpdate
    /\ rd' = [NoRead EXCEPT !.op = IF ok THEN "reply" ELSE "reply_failed",
                            !.chat = upd.chat]
    /\ UNCHANGED <<now, supabase, message_cache, chat_cache, remote_messages,
                   remote_conversations, rlVars, cacheVars, supVars, restVars>>

\* _handle_start and _handle_help up to the await of reply_text
handle_command(chat_id) ==
    /\ upd.pc = "idle"
    /\ is_polling
    /\ Len(message_cache) < MaxMessages
    /\ upd' = [upd EXCEPT !.pc = "command_reply", !.chat = Some(chat_id)]
    /\ rd' = [NoRead EXCEPT !.op = "command", !.chat = Some(chat_id)]
    /\ UNCHANGED <<now, supabase, message_cache, chat_cache, remote_messages,
                   remote_conversations, rlVars, cacheVars, supVars, restVars>>

\* the reply of a command was sent: _process_message follows, for the
\* message whose date is `date`
command_reply_done(date, ext, conv, msg) ==
    /\ upd.pc = "command_reply"
    /\ date \in 0..now
    /\ Outcomes(ext, conv, msg)
    /\ process_message(upd.chat[1], date, ext, conv, msg)
    /\ upd' = NoUpdate
    /\ UNCHANGED restVars

\* the reply of a command raised: the handler ends there
command_reply_failed ==
    /\ upd.pc = "command_reply"
    /\ upd' = NoUpdate
    /\ rd' = [NoRead EXCEPT !.op = "command_reply_failed", !.chat = upd.chat]
    /\ UNCHANGED <<now, supabase, message_cache, chat_cache, remote_messages,
                   remote_conversations, rlVars, cacheVars, supVars, restVars>>

\* send_message (send_message_with_file without a file) up to its await of
\* application.bot.send_message
send_message(chat_id) ==
    /\ upd.pc = "idle"
    /\ Len(message_cache) < MaxMessages
    /\ upd' = [pc |-> "send_message", chat |-> Some(chat_id)]
    /\ rd' = [NoRead EXCEPT !.op = "send_message", !.chat = Some(chat_id)]
    /\ UNCHANGED <<now, supabase, message_cache, chat_cache, remote_messages,
                   remote_conversations, rlVars, cacheVars, supVars, restVars>>

\* the platform send returns (ok) or raises: the record is built and
\* _save_message called (msg: what its remote insert does) and True is
\* returned, or the except clause returns False
send_message_done(ok, msg) ==
    /\ upd.pc = "send_message"
    /\ msg \in WriteOutcomes
    /\ (~supabase \/ ~ok) => msg = "ok"
    /\ LET m == outgoing_message(upd.chat[1], now)
           r == save_message(message_cache, remote_messages, m, msg)
       IN  IF ok
           THEN /\ message_cache' = r.mc
                /\ remote_messages' = r.rm
                /\ rd' = [NoRead EXCEPT !.op = "sent", !.chat = upd.chat,
                                        !.outcome = msg, !.id = m.id,
                                        !.raised = r.raised]
           ELSE /\ UNCHANGED <<message_cache, remote_messages>>
                /\ rd' = [NoRead EXCEPT !.op = "send_failed", !.chat = upd.chat]
    /\ upd' = NoUpdate
    /\ UNCHANGED <<now, supabase, chat_cache, remote_conversations, rlVars,
                   cacheVars, supVars, restVars>>

\* a read leaves everything but its own record as it was, so a read that
\* follows a read reaches the state that the second read alone reaches: the
\* reads are taken from the states that no read has just produced
NotJustRead == rd.op \notin {"get_messages", "get_conversations"}

\* get_messages(chat_id, limit) for a limit that is a count (limit >= 0),
\* called by _handle_status between two updates
get_messages(chat, limit, outcome) ==
    /\ upd.pc = "idle"
    /\ NotJustRead
    /\ limit >= 0
    /\ outcome \in ReadOutcomes
    /\ ~supabase => outcome = "ok"
    /\ rd' = [NoRead EXCEPT !.op = "get_messages", !.chat = chat,
                            !.limit = limit, !.outcome = outcome]
    /\ UNCHANGED <<now, supabase, message_cache, chat_cache, remote_messages,
                   remote_conversations, upd, rlVars, cacheVars, supVars, restVars>>

\* get_conversations(), called by _handle_status between two updates
get_conversations(outcome) ==
    /\ upd.pc = "idle"
    /\ NotJustRead
    /\ outcome \in ReadOutcomes
    /\ ~supabase => outcome = "ok"
    /\ rd' = [NoRead EXCEPT !.op = "get_conversations", !.outcome = outcome]
    /\ UNCHANGED <<now, supabase, message_cache, chat_cache, remote_messages,
                   remote_conversations, upd, rlVars, cacheVars, supVars, restVars>>

\* the wall clock advances
TickStore ==
    /\ now < MaxStoreTime
    /\ now' = now + 1
    /\ UNCHANGED <<rlVars, cacheVars, supVars, storeVars, restVars>>

\* the supervisor after initialize() and start_polling() have succeeded
SupervisorPolling ==
    /\ is_initialized = TRUE
    /\ is_polling = TRUE
    /\ reconnect_attempts = 0
    /\ max_reconnect_attempts = 1
    /\ connection_healthy = TRUE
    /\ bot_info = Some("bot")
    /\ registered = setup_handlers
    /\ task = [t \in Tasks |-> IdleTask]
    /\ g = NoHistory

\* the module's rate_limiter, which no registered handler has called
RateLimiterUnused ==
    /\ max_requests = 1
    /\ window_seconds = 1
    /\ requests = <<>>
    /\ calls = <<>>
    /\ handler = [h \in Handlers |-> [pc |-> "idle", user |-> None, wait |-> None]]

\* TelegramBotService.__init__: create_client returned a client or raised
InitStore ==
    /\ now = 0
    /\ supabase \in BOOLEAN
    /\ message_cache = <<>>
    /\ chat_cache = <<>>
    /\ remote_messages = <<>>
    /\ remote_conversations = <<>>
    /\ upd = NoUpdate
    /\ rd = NoRead
    /\ SupervisorPolling
    /\ RateLimiterUnused
    /\ CacheIdle
    /\ RestIdle

NextStore ==
    \/ \E c \in Chats, d \in 0..MaxStoreTime, ext \in {"ok", "raises"},
          conv \in WriteOutcomes, msg \in WriteOutcomes :
            handle_message(c, d, ext, conv, msg)
    \/ \E ok \in BOOLEAN : reply_text_done(ok)
    \/ \E c \in Chats : handle_command(c)
    \/ \E d \in 0..MaxStoreTime, ext \in {"ok", "raises"},
          conv \in WriteOutcomes, msg \in WriteOutcomes :
            command_reply_done(d, ext, conv, msg)
    \/ command_reply_failed
    \/ \E c \in Chats : send_message(c)
    \/ \E ok \in BOOLEAN, msg \in WriteOutcomes : send_message_done(ok, msg)
    \/ \E c \in {None} \cup {Some(x) : x \in Chats}, l \in 0..MaxLimit,
          o \in ReadOutcomes : get_messages(c, l, o)
    \/ \E o \in ReadOutcomes : get_conversations(o)
    \/ TickStore

SpecStore == InitStore /\ [][NextStore]_vars

\* --------------------------------------------------- TelegramBotApp.stop
\* stop() awaits the notification of the operator (when admin_chat_id is
\* set), then bot_service.stop_polling(); what follows the return of
\* stop_polling() has no await and runs with it as one step.  The handlers
\* go on using the module's cache_manager while stop() is suspended.

\* the coroutine in which stop() calls the supervisor
AppTask == "t1"

\* (mutation) a notification that fails ends stop()
stop_ends_after_notification_failing(ok) == ~ok

\* whether stop() ends after the notification: the inner try catches what
\* send_message raises, and stop() goes on
stop_ends_after_notification(ok) == FALSE

\* `await self.bot_service.stop_polling()` up to its first await
app_stop_polling ==
    /\ g.ext_calls < MaxSupCalls
    /\ CommitSupervisor(AppTask, stop_polling(NewCall(AppTask, "stop_polling")))

\* stop() is called on the running application
app_stop ==
    /\ app.pc = "running"
    /\ IF app.admin
       THEN /\ app' = [app EXCEPT !.pc = "notify"]
            /\ UNCHANGED supVars
       ELSE /\ app' = [app EXCEPT !.pc = "stop_polling", !.notified = "skipped"]
            /\ app_stop_polling
    /\ UNCHANGED <<now, rlVars, cacheVars, storeVars, dispVars, retry>>

\* the notification was sent, or send_message raised
app_notify_done(ok) ==
    /\ app.pc = "notify"
    /\ IF stop_ends_after_notification(ok)
       THEN /\ app' = [app EXCEPT !.pc = "stopped", !.notified = "failed"]
            /\ UNCHANGED supVars
       ELSE /\ app' = [app EXCEPT !.pc = "stop_polling",
                                  !.notified = IF ok THEN "sent" ELSE "failed"]
            /\ app_stop_polling
    /\ UNCHANGED <<now, rlVars, cacheVars, storeVars, dispVars, retry>>

\* stop_polling() has returned: cache_manager.clear(), cleanup_old_files,
\* self.is_running = False, self.shutdown_event.set()
app_stop_finish ==
    /\ app.pc = "stop_polling"
    /\ task[AppTask].pc = "done"
    /\ cache' = <<>>
    /\ last' = [op |-> "clear", key |-> None, value |-> None,
                ret |-> None, pre |-> cache, at |-> now,
                expired |-> {}, oldest |-> {}]
    /\ app' = [app EXCEPT !.pc = "stopped", !.is_running = FALSE,
                          !.shutdown_event = TRUE]
    /\ UNCHANGED <<now, max_size, ttl_seconds, rlVars, supVars, storeVars,
                   dispVars, retry>>

\* a handler calls cache_manager.set while stop() has not been called or
\* is suspended at one of its awaits
app_cache_set(key, value) ==
    /\ \/ app.pc \in {"running", "notify"}
       \/ app.pc = "stop_polling" /\ task[AppTask].pc # "done"
    /\ cache_set(key, value)

\* the supervisor when start_polling() has given up after its failures
SupervisorGaveUp ==
    /\ is_initialized = TRUE
    /\ is_polling = FALSE
    /\ reconnect_attempts = 1
    /\ max_reconnect_attempts = 1
    /\ connection_healthy = FALSE
    /\ bot_info = Some("bot")
    /\ registered = setup_handlers
    /\ task = [t \in Tasks |-> IdleTask]
    /\ g = NoHistory

\* the application after start() has set is_running
InitApp ==
    /\ now = 0
    /\ max_size \in 1..MaxSize
    /\ ttl_seconds \in 1..MaxTtl
    /\ cache = <<>>
    /\ last = NoOp
    /\ SupervisorPolling \/ SupervisorGaveUp
    /\ RateLimiterIdle
    /\ StoreIdle
    /\ running = [h \in Handlers |-> NoRunning]
    /\ dispatched = 0
    /\ persisted = <<>>
    /\ conv_calls = <<>>
    /\ \E a \in BOOLEAN : app = [AppIdle EXCEPT !.pc = "running", !.is_running = TRUE,
                                                 !.admin = a,
                                                 !.start = "wait_shutdown"]
    /\ retry = RetryIdle

NextApp ==
    \/ app_stop
    \/ \E ok \in BOOLEAN : app_notify_done(ok)
    \/ \E ok \in BOOLEAN : updater_stop_done(AppTask, ok)
    \/ \E ok \in BOOLEAN : app_stop_done(AppTask, ok)
    \/ \E ok \in BOOLEAN : app_shutdown_done(AppTask, ok)
    \/ app_stop_finish
    \/ \E k \in CacheKeys, v \in Values : app_cache_set(k, v)

SpecApp == InitApp /\ [][NextApp]_vars

\* -------------------------------------------------- TelegramBotApp.start
\* start() awaits initialize(), then bot_service.start_polling(), and sets
\* is_running only when start_polling() has returned; then it awaits the
\* shutdown event.  stop() is run as a task of its own when a signal
\* arrives, at any await of start().

\* start() is called: TelegramBotApp.initialize constructs the service and
\* awaits bot_service.initialize()
app_start ==
    /\ app.start = "none"
    /\ ~app.is_running
    /\ app' = [app EXCEPT !.start = "initialize"]
    /\ CommitSupervisor(AppTask, initialize(NewCall(AppTask, "initialize")))
    /\ UNCHANGED <<now, rlVars, cacheVars, storeVars, dispVars, retry>>

\* bot_service.initialize() has returned: start() returns False, or goes
\* on to `await self.bot_service.start_polling()`
app_initialized ==
    /\ app.start = "initialize"
    /\ task[AppTask].pc = "done"
    /\ IF task[AppTask].ret = Some(TRUE)
       THEN /\ app' = [app EXCEPT !.start = "start_polling"]
            /\ CommitSupervisor(AppTask, start_polling(NewCall(AppTask, "start_polling")))
       ELSE /\ app' = [app EXCEPT !.start = "returned"]
            /\ UNCHANGED supVars
    /\ UNCHANGED <<now, rlVars, cacheVars, storeVars, dispVars, retry>>

\* start_polling() has returned: self.is_running = True, and start()
\* awaits the shutdown event (the notification of the start is left out)
app_started ==
    /\ app.start = "start_polling"
    /\ task[AppTask].pc = "done"
    /\ app' = [app EXCEPT !.start = "wait_shutdown", !.is_running = TRUE,
                          !.pc = "running"]
    /\ UNCHANGED <<now, rlVars, cacheVars, supVars, storeVars, dispVars, retry>>

\* the first test of stop(): `if not self.is_running: return`
stop_returns_at_once(is_running) == ~is_running

\* stop() is called while start() is in the backoff wait of the reconnect
\* path: is_running is still false and stop() returns at once.  (A stop()
\* called at another await of start() before is_running is set returns at
\* once as well and changes nothing.)
app_stop_in_backoff ==
    /\ app.start = "start_polling"
    /\ task[AppTask].pc = "backoff"
    /\ ~app.stop_in_backoff
    /\ IF stop_returns_at_once(app.is_running)
       THEN app' = [app EXCEPT !.stop_in_backoff = TRUE]
       ELSE app' = [app EXCEPT !.stop_in_backoff = TRUE, !.is_running = FALSE,
                               !.shutdown_event = TRUE]
    /\ UNCHANGED <<now, rlVars, cacheVars, supVars, storeVars, dispVars, retry>>

\* `await self.shutdown_event.wait()` returns: start() returns
app_start_returns ==
    /\ app.start = "wait_shutdown"
    /\ app.shutdown_event
    /\ app' = [app EXCEPT !.start = "returned"]
    /\ UNCHANGED <<now, rlVars, cacheVars, supVars, storeVars, dispVars, retry>>

\* the application before start()
InitStart ==
    /\ now = 0
    /\ is_initialized = FALSE
    /\ is_polling = FALSE
    /\ reconnect_attempts = 0
    /\ max_reconnect_attempts \in 1..MaxReconnect
    /\ connection_healthy = FALSE
    /\ bot_info = None
    /\ registered = setup_handlers
    /\ task = [t \in Tasks |-> IdleTask]
    /\ g = NoHistory
    /\ RateLimiterIdle
    /\ CacheIdle
    /\ StoreIdle
    /\ running = [h \in Handlers |-> NoRunning]
    /\ dispatched = 0
    /\ persisted = <<>>
    /\ conv_calls = <<>>
    /\ \E a \in BOOLEAN : app = [AppIdle EXCEPT !.admin = a]
    /\ retry = RetryIdle

NextStart ==
    \/ app_start
    \/ app_initialized
    \/ app_started
    \/ app_stop_in_backoff
    \/ app_start_returns
    \/ app_stop
    \/ \E ok \in BOOLEAN : app_notify_done(ok)
    \/ app_stop_finish
    \/ \E ok \in BOOLEAN : get_me_done(AppTask, ok)
    \/ \E ok \in BOOLEAN : delete_webhook_done(AppTask, ok)
    \/ \E ok \in BOOLEAN : set_my_commands_done(AppTask, ok)
    \/ \E ok \in BOOLEAN : app_initialize_done(AppTask, ok)
    \/ \E ok \in BOOLEAN : app_start_done(AppTask, ok)
    \/ \E ok \in BOOLEAN : updater_start_polling_done(AppTask, ok)
    \/ backoff_done(AppTask)
    \/ \E ok \in BOOLEAN : updater_stop_done(AppTask, ok)
    \/ \E ok \in BOOLEAN : app_stop_done(AppTask, ok)
    \/ \E ok \in BOOLEAN : app_shutdown_done(AppTask, ok)

SpecStart == InitStart /\ [][NextStart]_vars

\* ------------------------------------------------------------ async_retry
\* func is a coroutine function of the caller: each call of it returns a
\* value or raises; the exception of attempt i is named by i.

\* (mutation) the wait doubles before the first retry already
retry_wait_time_doubled(delay, attempt) == delay * (2 ^ (attempt + 1))

\* wait_time = delay * (2 ** attempt)
retry_wait_time(delay, attempt) == delay * (2 ^ attempt)

\* the top of the for loop: `return await func()`, or the end of the loop
\* when range(max_attempts) is exhausted (only for max_attempts <= 0)
retry_attempt(r) ==
    IF r.attempt < r.max_attempts
    THEN [r EXCEPT !.pc = "func", !.calls = @ + 1]
    ELSE [r EXCEPT !.pc = "returned"]

\* the except clause: raise on the last attempt, else sleep
retry_failed(r) ==
    IF r.attempt = r.max_attempts - 1
    THEN [r EXCEPT !.pc = "raised", !.error = Some(r.attempt)]
    ELSE [r EXCEPT !.pc = "sleep",
                   !.waits = Append(@, retry_wait_time(r.delay, r.attempt))]

\* async_retry(func, max_attempts, delay) is called
call_async_retry(n, d) ==
    /\ retry.pc \in {"idle", "returned", "raised"}
    /\ retry' = retry_attempt([RetryIdle EXCEPT !.max_attempts = n, !.delay = d])
    /\ UNCHANGED <<now, rlVars, cacheVars, supVars, storeVars, dispVars, app>>

\* `await func()` returns or raises
func_done(ok) ==
    /\ retry.pc = "func"
    /\ retry' = IF ok
                THEN [retry EXCEPT !.pc = "returned", !.result = Some("value")]
                ELSE retry_failed(retry)
    /\ UNCHANGED <<now, rlVars, cacheVars, supVars, storeVars, dispVars, app>>

\* `await asyncio.sleep(wait_time)` is over: the next attempt
sleep_done ==
    /\ retry.pc = "sleep"
    /\ retry' = retry_attempt([retry EXCEPT !.attempt = @ + 1])
    /\ UNCHANGED <<now, rlVars, cacheVars, supVars, storeVars, dispVars, app>>

InitRetry ==
    /\ now = 0
    /\ RateLimiterIdle
    /\ CacheIdle
    /\ SupervisorIdle
    /\ StoreIdle
    /\ RestIdle

NextRetry ==
    \/ \E n \in 0..MaxAttempts, d \in 0..MaxDelay : call_async_retry(n, d)
    \/ \E ok \in BOOLEAN : func_done(ok)
    \/ sleep_done

SpecRetry == InitRetry /\ [][NextRetry]_vars

\* ---------------------------------------------- handlers that overlap
\* The handlers of distinct updates may overlap: a handler runs from its
\* dispatch to its first await that suspends, and other handlers run while
\* it is suspended.  Updates are dispatched in order, so the dispatch
\* number of an update is the number of updates dispatched before it, plus
\* one.

\* _process_message in the handler of update n of chat chat_id, with the
\* record of its calls of _save_conversation and _save_message
process_dispatched(chat_id, n, ext, conv, msg) ==
    /\ Outcomes(ext, conv, msg)
    /\ process_message(chat_id, now, ext, conv, msg)
    /\ persisted' = IF ext = "ok"
                    THEN Append(persisted, [chat |-> chat_id, n |-> n])
                    ELSE persisted
    /\ conv_calls' =
          IF ext = "ok" /\ supabase
          THEN Append(conv_calls,
                      [chat |-> chat_id,
                       write |-> save_conversation_write(remote_conversations, chat_id),
                       outcome |-> conv])
          ELSE conv_calls
    /\ UNCHANGED <<upd, app, retry>>

\* an ordinary message is dispatched to _handle_message, which runs
\* _process_message and is suspended at `await update.message.reply_text`
dispatch_message(h, chat_id, ext, conv, msg) ==
    /\ running[h].pc = "idle"
    /\ dispatched < MaxDispatch
    /\ process_dispatched(chat_id, dispatched + 1, ext, conv, msg)
    /\ dispatched' = dispatched + 1
    /\ running' = [running EXCEPT ![h] = [pc |-> "reply_text", chat |-> Some(chat_id),
                                          n |-> dispatched + 1]]

\* the reply of _handle_message returns or raises: the handler ends
message_reply_done(h) ==
    /\ running[h].pc = "reply_text"
    /\ running' = [running EXCEPT ![h] = NoRunning]
    /\ UNCHANGED <<now, rlVars, cacheVars, supVars, storeVars, dispatched,
                   persisted, conv_calls, app, retry>>

\* a command is dispatched to _handle_start or _handle_help, which is
\* suspended at `await update.message.reply_text` before _process_message
dispatch_command(h, chat_id) ==
    /\ running[h].pc = "idle"
    /\ dispatched < MaxDispatch
    /\ dispatched' = dispatched + 1
    /\ running' = [running EXCEPT ![h] = [pc |-> "command_reply", chat |-> Some(chat_id),
                                          n |-> dispatched + 1]]
    /\ UNCHANGED <<now, rlVars, cacheVars, supVars, storeVars, persisted,
                   conv_calls, app, retry>>

\* the reply of a command returns: _process_message follows and the
\* handler ends
command_replied(h, ext, conv, msg) ==
    /\ running[h].pc = "command_reply"
    /\ process_dispatched(running[h].chat[1], running[h].n, ext, conv, msg)
    /\ running' = [running EXCEPT ![h] = NoRunning]
    /\ UNCHANGED dispatched

\* the reply of a command raises: the handler ends without _process_message
command_reply_raised(h) ==
    /\ running[h].pc = "command_reply"
    /\ running' = [running EXCEPT ![h] = NoRunning]
    /\ rd' = [NoRead EXCEPT !.op = "command_reply_failed", !.chat = running[h].chat]
    /\ UNCHANGED <<now, rlVars, cacheVars, supVars, supabase, message_cache,
                   chat_cache, remote_messages, remote_conversations, upd,
                   dispatched, persisted, conv_calls, app, retry>>

NextDispatch ==
    \/ \E h \in Handlers, c \in Chats, ext \in {"ok", "raises"},
          conv \in WriteOutcomes, msg \in WriteOutcomes :
            dispatch_message(h, c, ext, conv, msg)
    \/ \E h \in Handlers : message_reply_done(h)
    \/ \E h \in Handlers, c \in Chats : dispatch_command(h, c)
    \/ \E h \in Handlers, ext \in {"ok", "raises"},
          conv \in WriteOutcomes, msg \in WriteOutcomes :
            command_replied(h, ext, conv, msg)
    \/ \E h \in Handlers : command_reply_raised(h)

SpecDispatch == InitStore /\ [][NextDispatch]_vars

\* ------------------------------------------------------ message store claims

\* the ids of the records of sequence s
ids_of(s) == {s[i].id : i \in 1..Len(s)}

\* the value the last read returned
read_result ==
    IF rd.op = "get_messages"
    THEN get_messages_result(rd.chat, rd.limit, rd.outcome)
    ELSE get_conversations_result(rd.outcome)

\* C12: whenever _save_message has run, without a remote store or with a
\* remote insert that succeeded, returned no data or raised, the record is
\* in the local cache and no exception left the method.
C12_SaveAlwaysCaches ==
    rd.op = "save" =>
        /\ \E i \in 1..Len(message_cache) :
              /\ message_cache[i].id = rd.id
              /\ message_cache[i].chat_id = rd.chat[1]
        /\ ~rd.raised

\* C12 witness: with a remote store whose insert raised, the record is in
\* the cache and not in the remote table.
C12_Witness ==
    /\ supabase
    /\ rd.op = "save"
    /\ rd.outcome = "raises"
    /\ rd.id \in ids_of(message_cache)
    /\ rd.id \notin ids_of(remote_messages)

\* C13 (as claimed): with a remote store, a get_messages for a conversation
\* whose limit is at least the number of records saved for it returns every
\* record saved for it, also those whose remote write failed.
C13_FailedWriteStillRead ==
    (supabase /\ rd.op = "get_messages" /\ rd.outcome = "ok" /\ rd.chat # None) =>
        LET mine == of_chat(message_cache, rd.chat)
        IN  Len(mine) <= rd.limit => ids_of(mine) \subseteq ids_of(read_result)

\* the cache of the scenario: 15 records of chat "42" and 5 of chat "7",
\* with timestamps that repeat and are not in the order of insertion
Scenario42 ==
    [i \in 1..20 |-> [id |-> i,
                      chat_id |-> IF i % 4 = 0 THEN "7" ELSE "42",
                      user_id |-> Some("u1"),
                      timestamp |-> (i * 7) % 5,
                      direction |-> "incoming", status |-> "delivered"]]

\* res is what get_messages(chat, limit) must return from cache contents mc:
\* min(limit, count) records of that chat, newest first, none older than a
\* record of the chat that was left out
newest_of(res, mc, chat, limit) ==
    LET mine == of_chat(mc, chat)
    IN  /\ Len(res) = IF limit < Len(mine) THEN limit ELSE Len(mine)
        /\ \A i \in 1..Len(res) : res[i].chat_id = chat[1]
        /\ \A i \in 1..Len(res) : \E j \in 1..Len(mine) : res[i] = mine[j]
        /\ \A i, j \in 1..Len(res) : i # j => res[i].id # res[j].id
        /\ \A i, j \in 1..Len(res) : i < j => res[i].timestamp >= res[j].timestamp
        /\ \A i \in 1..Len(res), j \in 1..Len(mine) :
              mine[j].id \notin ids_of(res) => res[i].timestamp >= mine[j].timestamp

\* get_messages("42", 10) on the cache of the scenario returns 10 records
\* of chat "42", newest first
Scenario42Holds ==
    LET res == get_messages_from(Scenario42, Some("42"), 10)
    IN  Len(res) = 10 /\ newest_of(res, Scenario42, Some("42"), 10)

\* C14: without a remote store, get_messages(conversation_id, limit) returns
\* exactly min(limit, cached records of the conversation) records, all of
\* that conversation, in non-increasing timestamp order, and the newest
\* ones; from 15 records of chat "42" and 5 of another chat, limit 10
\* returns 10 records of chat "42", newest first.
C14_CacheReadNewestFirst ==
    /\ (~supabase /\ rd.op = "get_messages" /\ rd.chat # None) =>
          newest_of(read_result, message_cache, rd.chat, rd.limit)
    /\ Scenario42Holds

\* C14 witness: the cache holds an older and then a newer record of one
\* chat, and get_messages of that chat with limit 1 returned the newer one.
C14_Witness ==
    /\ ~supabase
    /\ rd.op = "get_messages"
    /\ rd.chat # None
    /\ rd.limit = 1
    /\ LET mine == of_chat(message_cache, rd.chat)
       IN  /\ Len(mine) = 2
           /\ mine[1].timestamp < mine[2].timestamp
           /\ read_result = <<mine[2]>>

\* the instant at which a returned conversation was last updated
updated_of(c) ==
    IF "updated_at" \in DOMAIN c THEN c.updated_at ELSE c.last_activity

\* C15 (as claimed): get_conversations() lists the conversations in
\* non-increasing order of their last update, with or without a remote store.
C15_MostRecentlyUpdatedFirst ==
    (rd.op = "get_conversations" /\ rd.outcome = "ok") =>
        \A i, j \in 1..Len(read_result) :
            i < j => updated_of(read_result[i]) >= updated_of(read_result[j])

\* C16: a get_messages or get_conversations whose remote read raised
\* returned the empty sequence and raised nothing.
C16_ReadErrorGivesEmpty ==
    (rd.op \in {"get_messages", "get_conversations"} /\ rd.outcome = "raises") =>
        /\ read_result = <<>>
        /\ ~rd.raised

\* C16 witness: conversations are stored remotely and cached, the remote
\* read of get_conversations raised and the result is empty.
C16_Witness ==
    /\ supabase
    /\ rd.op = "get_conversations"
    /\ rd.outcome = "raises"
    /\ remote_conversations # <<>>
    /\ chat_cache # <<>>
    /\ read_result = <<>>

\* C17 (as claimed): a record is saved or a normal reply is sent only for an
\* update whose sender an is_allowed call has admitted.
C17_RateLimitBeforeActing ==
    rd.op \in {"save", "reply"} =>
        \E i \in 1..Len(calls) :
            calls[i].key = sender_of(rd.chat[1]) /\ calls[i].ok

\* C18: after the processing of an update, failed or not (content
\* extraction, chat-info update, persistence), no exception has left
\* _process_message, polling is still on, the health flag and
\* reconnect_attempts are as they were, and the handler goes on.
C18_UpdateFailureIsolated ==
    rd.op \in {"process_failed", "save"} =>
        /\ ~rd.raised
        /\ is_polling
        /\ connection_healthy
        /\ reconnect_attempts = 0
        /\ is_initialized
        /\ upd.pc \in {"idle", "reply_text"}

\* C18 witness: the remote write of one record failed, and a later update
\* has been processed and saved while polling is still on.
C18_Witness ==
    /\ supabase
    /\ is_polling
    /\ rd.op = "save"
    /\ \E i \in 1..Len(message_cache) :
          /\ message_cache[i].id \notin ids_of(remote_messages)
          /\ message_cache[i].id < rd.id
          /\ rd.id \in ids_of(message_cache)

\* C31 (as claimed): the last-activity value of a chat advances on every
\* new message involving the chat, incoming or sent through send_message:
\* every message saved belongs to a chat whose last-activity value is
\* recorded and is not older than the message.
C31_LastActivityAdvances ==
    \A i \in 1..Len(message_cache) :
        \E j \in 1..Len(chat_cache) :
            /\ chat_cache[j].id = message_cache[i].chat_id
            /\ chat_cache[j].last_activity >= message_cache[i].timestamp

\* the records of messages sent
outgoing_in(mc) == {i \in 1..Len(mc) : mc[i].direction = "outgoing"}

\* C32: send_message whose platform send fails returns False without
\* raising and saves nothing; a record of a message sent is saved only in
\* the step in which send_message returns True after the platform send,
\* and every such record has status sent.
C32_SendFailureReported ==
    [][/\ (upd.pc = "send_message" /\ upd'.pc = "idle") =>
            /\ rd'.op \in {"sent", "send_failed"}
            /\ ~rd'.raised
            /\ rd'.op = "send_failed" =>
                  /\ message_cache' = message_cache
                  /\ remote_messages' = remote_messages
            /\ rd'.op = "sent" =>
                  /\ Len(message_cache') = Len(message_cache) + 1
                  /\ message_cache'[Len(message_cache')].id = rd'.id
                  /\ message_cache'[Len(message_cache')].direction = "outgoing"
       /\ outgoing_in(message_cache') # outgoing_in(message_cache) =>
            upd.pc = "send_message" /\ rd'.op = "sent"
       /\ \A i \in outgoing_in(message_cache') : message_cache'[i].status = "sent"
       /\ \A i \in 1..Len(remote_messages') :
            remote_messages'[i].direction = "outgoing" =>
                /\ remote_messages'[i].status = "sent"
                /\ remote_messages'[i].id \in ids_of(message_cache')]_vars

\* C32 witness: a send_message has failed and saved nothing, after an
\* earlier send_message whose record, with status sent, is in the cache
\* and in the remote table.
C32_Witness ==
    /\ rd.op = "send_failed"
    /\ supabase
    /\ outgoing_in(message_cache) # {}
    /\ \E i \in 1..Len(remote_messages) :
          remote_messages[i].direction = "outgoing" /\ remote_messages[i].status = "sent"
    /\ Len(message_cache) = 1

\* C26 (as claimed): with handlers that overlap, the records of one chat
\* are written in the order in which their updates were dispatched,
\* commands and ordinary messages alike.
C26_PersistedInDispatchOrder ==
    \A i, j \in 1..Len(persisted) :
        (i < j /\ persisted[i].chat = persisted[j].chat)
            => persisted[i].n < persisted[j].n

\* C29 (as claimed): while a handler is sending its reply, the record of
\* its update has already been handed to _process_message, for commands as
\* for ordinary messages.
C29_PersistedBeforeReply ==
    upd.pc \in {"reply_text", "command_reply"} =>
        /\ rd.op \in {"save", "process_failed"}
        /\ rd.chat = upd.chat

C23_StopStepsIndependent ==
    app.pc = "stopped" =>
        /\ cache = <<>>
        /\ last.op = "clear"
        /\ app.shutdown_event
        /\ ~app.is_running

\* C23 witness: the notification failed and stop_polling() failed (polling
\* is still on), and stop() has cleared a cache that held entries and has
\* set the shutdown event.
C23_Witness ==
    /\ app.pc = "stopped"
    /\ app.notified = "failed"
    /\ task[AppTask].op = "stop_polling"
    /\ task[AppTask].was_polling /\ task[AppTask].exit_polling
    /\ is_polling
    /\ last.pre # <<>>
    /\ cache = <<>>
    /\ app.shutdown_event

\* C38 (as claimed): a stop() called while start() was in the backoff
\* wait of start_polling's reconnect path takes effect: once start() has
\* reached its wait for the shutdown event and no stop() is in progress
\* (nothing but a further shutdown request can then change the state),
\* polling is stopped and the shutdown event is set.
C38_StopInBackoffTakesEffect ==
    (/\ app.stop_in_backoff
     /\ app.start = "wait_shutdown"
     /\ app.pc = "running") =>
        /\ ~is_polling
        /\ app.shutdown_event

\* ------------------------------------------------------ async_retry claims
\* C24: async_retry with max_attempts = n >= 1 and delay = d has called
\* func at most n times; the waits made so far are d * 2^i for the failed
\* attempts i = 0, 1, ... that had attempts remaining; it returns at the
\* first success, with no call of func after it; and after n failures it
\* raises the failure of the last attempt, having waited n - 1 times.
C24_AsyncRetryContract ==
    retry.max_attempts >= 1 =>
        /\ retry.calls <= retry.max_attempts
        /\ \A i \in 1..Len(retry.waits) : retry.waits[i] = retry.delay * (2 ^ (i - 1))
        /\ retry.pc = "func" =>
              retry.calls = retry.attempt + 1 /\ Len(retry.waits) = retry.attempt
        /\ retry.pc = "sleep" =>
              /\ retry.calls = retry.attempt + 1
              /\ Len(retry.waits) = retry.attempt + 1
              /\ retry.calls < retry.max_attempts
        /\ retry.pc = "returned" =>
              /\ retry.result = Some("value")
              /\ retry.error = None
              /\ retry.calls = retry.attempt + 1
              /\ Len(retry.waits) = retry.attempt
        /\ retry.pc = "raised" =>
              /\ retry.result = None
              /\ retry.error = Some(retry.max_attempts - 1)
              /\ retry.calls = retry.max_attempts
              /\ Len(retry.waits) = retry.max_attempts - 1

\* C24 witness: async_retry(func, 3, 2) has raised after three failures
\* and the waits 2 and 4.
C24_Witness ==
    /\ retry.pc = "raised"
    /\ retry.max_attempts = 3
    /\ retry.delay = 2
    /\ retry.calls = 3
    /\ retry.waits = <<2, 4>>

\* ----------------------------------------------- TelegramBotService claims

Returned(t, name) == task[t].pc = "done" /\ task[t].op = name

\* C3 (as claimed): when every start attempt fails, after
\* max_reconnect_attempts failures no automatic restart is pending, and once
\* the call has returned the supervisor is stopped with reconnect_attempts =
\* max_reconnect_attempts after exactly that many start attempts.  Stated
\* for a single start_polling() call on a new supervisor.
C3_StopsAfterMaxFailures ==
    (/\ g.ext_calls = 1
     /\ g.start_successes = 0
     /\ g.start_failures >= max_reconnect_attempts) =>
        \A t \in Tasks :
            task[t].op = "start_polling" =>
                /\ task[t].pc # "backoff"
                /\ task[t].pc = "done" =>
                      /\ ~is_polling
                      /\ reconnect_attempts = max_reconnect_attempts
                      /\ task[t].starts = max_reconnect_attempts

\* C4 (as claimed): when stop_polling() has returned, is_polling is false;
\* stated for calls made while no other call is in progress.
C4_StopClearsPolling ==
    \A t \in Tasks :
        (Returned(t, "stop_polling") /\ ~g.overlap) => ~task[t].exit_polling

\* C5 (as claimed): after a stop_polling() called during a reconnect
\* backoff, is_polling stays false until start_polling() is called again.
C5_StopCancelsReconnect ==
    g.stopped_in_backoff => ~is_polling

\* C6 (as claimed): a start_polling() called while is_polling is true, with
\* no other call in progress, starts nothing and returns with the
\* supervisor's fields as they were.
C6_StartWhilePollingIsNoOp ==
    \A t \in Tasks :
        (Returned(t, "start_polling") /\ task[t].was_polling /\ ~g.overlap) =>
            task[t].unchanged /\ task[t].starts = 0

\* C19: when get_me raises, initialize() returns false without raising and
\* the health flag is false; when no other call overlaps it, is_initialized
\* is false and every field (is_polling and reconnect_attempts among them)
\* is as it was when initialize() was called.
C19_GetMeFailure ==
    [][\A t \in Tasks :
          (/\ task[t].op = "initialize"
           /\ task[t].pc = "get_me"
           /\ task'[t].pc = "done"
           /\ task'[t].ret = Some(FALSE)) =>
              /\ ~connection_healthy'
              /\ ~g.overlap =>
                    /\ ~is_initialized'
                    /\ is_polling' = is_polling
                    /\ reconnect_attempts' = reconnect_attempts
                    /\ task'[t].unchanged]_vars

\* C19 witness: an initialize() called on a polling supervisor with a
\* positive reconnect_attempts has returned false.
C19_Witness ==
    \E t \in Tasks :
        /\ Returned(t, "initialize")
        /\ task[t].ret = Some(FALSE)
        /\ ~g.overlap
        /\ task[t].unchanged
        /\ task[t].was_polling
        /\ reconnect_attempts > 0
        /\ ~is_initialized
        /\ ~connection_healthy

\* C20 (as claimed): an initialize() during which delete_webhook raised
\* returns false, and when it was the only call the supervisor is neither
\* initialized nor healthy.
C20_WebhookFailureFailsInit ==
    \A t \in Tasks :
        (Returned(t, "initialize") /\ task[t].webhook_failed) =>
            /\ task[t].ret = Some(FALSE)
            /\ g.ext_calls = 1 => ~is_initialized /\ ~connection_healthy

\* C21: reconnect_attempts decreases only in the step in which an
\* initialize() completes successfully, and then it becomes 0; no step of
\* start_polling, stop_polling or the reconnect path decreases it.
C21_AttemptsResetOnlyByInitialize ==
    [][reconnect_attempts' < reconnect_attempts =>
          /\ reconnect_attempts' = 0
          /\ is_initialized'
          /\ \E t \in Tasks : task[t].pc = "set_my_commands"]_vars

\* C21 witness: start attempts have failed and reconnect_attempts is 0
\* again, after an initialize() that succeeded.
C21_Witness ==
    /\ g.start_failures > 0
    /\ reconnect_attempts = 0
    /\ is_initialized

\* C22: a stop_polling() followed by a start_polling() as the next call,
\* neither overlapping another call and with no start attempt failing,
\* returns with is_polling true; and the handlers added to the application
\* are always those of the construction, each once.
C22_StopThenStart ==
    /\ registered = setup_handlers
    /\ \A i, j \in 1..Len(registered) : i # j => registered[i] # registered[j]
    /\ \A u \in Tasks :
          (/\ Returned(u, "start_polling")
           /\ task[u].after_stop
           /\ ~g.overlap
           /\ g.start_failures = 0) => task[u].exit_polling

\* C22 witness: a stop_polling() that stopped a polling supervisor was
\* followed by a start_polling() that started it again.
C22_Witness ==
    \E t, u \in Tasks :
        /\ Returned(t, "stop_polling")
        /\ task[t].was_polling /\ ~task[t].exit_polling
        /\ Returned(u, "start_polling")
        /\ task[u].after_stop
        /\ task[u].starts = 1
        /\ ~g.overlap
        /\ g.start_failures = 0
        /\ is_polling
        /\ registered = setup_handlers

\* C27: in every reachable state is_polling implies is_initialized:
\* start_polling() does not begin polling when its initialize() has failed.
C27_PollingImpliesInitialized == is_polling => is_initialized

\* C28: every restart attempt of the reconnect path (a start attempt begun
\* by a call that was in its backoff wait or in the stop_polling() that
\* follows it) begins in the step that completes the stop sequence, at the
\* return of application.shutdown().
C28_RestartAfterStopSequence ==
    [][\A t \in Tasks :
          (/\ task'[t].starts = task[t].starts + 1
           /\ task[t].pc = "backoff" \/ task[t].cont = "reconnect")
          => task[t].pc = "app_shutdown"]_vars

\* get_connection_status(): the fields it reports
get_connection_status ==
    [is_connected |-> connection_healthy, is_polling |-> is_polling,
     reconnect_attempts |-> reconnect_attempts, bot_info |-> bot_info]

\* C34 (as claimed): when the only call, a start_polling() whose
\* initialize() succeeded, has returned after a start attempt that
\* succeeded (the first one, or a restart made by the reconnect path after
\* a failure), get_connection_status() reports is_connected = true
\* together with is_polling = true.
C34_HealthyAfterStart ==
    \A t \in Tasks :
        (/\ g.ext_calls = 1
         /\ Returned(t, "start_polling")
         /\ is_initialized
         /\ task[t].exit_polling
         /\ g.start_successes = 1) =>
            /\ get_connection_status.is_polling
            /\ get_connection_status.is_connected

\* C35 (as claimed): in every reachable state
\* 0 <= reconnect_attempts <= max_reconnect_attempts.
C35_AttemptsBounded ==
    /\ 0 <= reconnect_attempts
    /\ reconnect_attempts <= max_reconnect_attempts

\* the start attempts begun by the calls in progress or returned
starts_of(ts) == IF ts = {} THEN 0 ELSE
    LET t == CHOOSE x \in ts : TRUE IN task[t].starts + (IF ts = {t} THEN 0 ELSE
        LET u == CHOOSE x \in ts \ {t} : TRUE IN task[u].starts)

\* C37: a start attempt begins only in a step at whose test is_polling is
\* false (it was false before the step, or the step is the return of
\* application.shutdown() in the stop that clears it); and two
\* start_polling() calls, being the only calls, begin one start attempt
\* between them as long as no attempt fails, however they interleave.
C37_OneSessionForTwoStarts ==
    [][/\ \A t \in Tasks :
            task'[t].starts = task[t].starts + 1 =>
                ~is_polling \/ task[t].pc = "app_shutdown"
       /\ (/\ g'.ext_calls <= 2
           /\ \A t \in Tasks : task'[t].op \in {"none", "start_polling"}
           /\ g'.start_failures = 0) =>
              /\ starts_of(Tasks)' <= 1
              /\ Cardinality({t \in Tasks : task'[t].pc \in
                    {"app_initialize", "app_start", "updater_start_polling"}}) <= 1]_vars

\* C37 witness: two start_polling() calls overlap; the second was called
\* before polling began, went through initialize() and has returned
\* without a start attempt, while the first is in the start sequence.
C37_Witness ==
    \E t, u \in Tasks :
        /\ t # u
        /\ g.ext_calls = 2
        /\ task[t].op = "start_polling" /\ task[t].pc = "app_start"
        /\ task[t].starts = 1
        /\ Returned(u, "start_polling")
        /\ ~task[u].was_polling
        /\ task[u].starts = 0
        /\ is_polling

\* ----------------------------------------------------- CacheManager claims

\* the entry of key k in cache contents c (k is a key of c)
entry_of(c, k) == c[index_of(c, k)]

\* the keys of c whose entry is older than ttl_seconds at instant t
expired_at(c, t) == {k \in cache_keys(c) : t - entry_of(c, k).timestamp > ttl_seconds}

\* C2 (as claimed): the number of live (non-expired) entries never exceeds
\* max_size.
C2_LiveEntriesBound ==
    Cardinality(cache_keys(cache) \ expired_at(cache, now)) <= max_size

\* C9: get(key) returns the stored value exactly when the entry is present
\* and its age is at most ttl_seconds, and then changes nothing; for an entry
\* older than ttl_seconds it returns absent and the entry is gone afterwards.
C9_GetContract ==
    last.op = "get" =>
        LET k == last.key[1]
            present == k \in cache_keys(last.pre)
            fresh == present /\ last.at - entry_of(last.pre, k).timestamp <= ttl_seconds
        IN  /\ fresh => last.ret = Some(entry_of(last.pre, k).value) /\ cache = last.pre
            /\ ~fresh => last.ret = None
            /\ (present /\ ~fresh) =>
                  /\ k \notin cache_keys(cache)
                  /\ cache = SelectSeq(last.pre, LAMBDA e : e.key # k)
            /\ ~present => cache = last.pre

\* C9 witness: a get of an entry inserted more than ttl_seconds ago returned
\* absent and removed it, while another entry stayed.
C9_Witness ==
    /\ last.op = "get"
    /\ last.key[1] \in cache_keys(last.pre)
    /\ last.at - entry_of(last.pre, last.key[1]).timestamp > ttl_seconds
    /\ last.ret = None
    /\ Len(cache) = Len(last.pre) - 1
    /\ cache # <<>>

\* C10: a set that finds the cache at or above max_size (max_size >= 1)
\* evicts before it inserts: every expired entry is removed; only if the
\* entries left still fill the cache are entries removed, oldest timestamp
\* first, until max_size - 1 are left; a set that finds room evicts nothing.
\* With max_size = 2 and no expiry, set a, set b, set c leaves b and c.
C10_EvictionBeforeInsert ==
    (last.op = "set" /\ max_size >= 1) =>
        LET k == last.key[1]
            pre == last.pre
            full == Len(pre) >= max_size
            exp == expired_at(pre, last.at)
            live == cache_keys(pre) \ exp
            over == Cardinality(live) >= max_size
            kept == (cache_keys(pre) \ last.expired) \ last.oldest
        IN  /\ ~full => last.expired = {} /\ last.oldest = {}
            /\ full => last.expired = exp
            /\ (full /\ ~over) => last.oldest = {}
            /\ (full /\ over) =>
                  /\ last.oldest \subseteq live
                  /\ Cardinality(live \ last.oldest) = max_size - 1
                  /\ \A r \in last.oldest, q \in live \ last.oldest :
                        entry_of(pre, r).timestamp <= entry_of(pre, q).timestamp
            /\ cache_keys(cache) = kept \cup {k}
            /\ \A q \in kept \ {k} : entry_of(cache, q) = entry_of(pre, q)
            /\ entry_of(cache, k) = [key |-> k, value |-> last.value[1], timestamp |-> last.at]
            /\ (max_size = 2 /\ k = "c" /\ exp = {}
                  /\ [i \in 1..Len(pre) |-> pre[i].key] = <<"a", "b">>)
                 => [i \in 1..Len(cache) |-> cache[i].key] = <<"b", "c">>

\* C10 witness: max_size = 2, the cache holds a then b, none expired, and
\* set c has evicted a: exactly b and c are left.
C10_Witness ==
    /\ last.op = "set"
    /\ max_size = 2
    /\ last.key = Some("c")
    /\ [i \in 1..Len(last.pre) |-> last.pre[i].key] = <<"a", "b">>
    /\ expired_at(last.pre, last.at) = {}
    /\ last.oldest = {"a"}
    /\ [i \in 1..Len(cache) |-> cache[i].key] = <<"b", "c">>

\* C33: a get of an entry that has not expired refreshes nothing: the
\* entry keeps its timestamp and its place, the whole cache is as it was,
\* and the keys that a set made next would evict are those it would have
\* evicted without the get.
C33_GetDoesNotRefresh ==
    (/\ last.op = "get"
     /\ last.key[1] \in cache_keys(last.pre)
     /\ last.at - entry_of(last.pre, last.key[1]).timestamp <= ttl_seconds) =>
        /\ last.key[1] \in cache_keys(cache)
        /\ entry_of(cache, last.key[1]).timestamp
              = entry_of(last.pre, last.key[1]).timestamp
        /\ index_of(cache, last.key[1]) = index_of(last.pre, last.key[1])
        /\ cache = last.pre
        /\ cleanup_old_entries(cache) = cleanup_old_entries(last.pre)

\* C33 witness: in a full cache, a get at a later instant has returned the
\* oldest entry, which is still the one that the next set will evict.
C33_Witness ==
    /\ last.op = "get"
    /\ last.ret # None
    /\ max_size >= 2
    /\ Len(cache) = max_size
    /\ entry_of(cache, last.key[1]).timestamp < last.at
    /\ now = last.at
    /\ expired_keys(cache) = {}
    /\ oldest_keys(cache) = {last.key[1]}
    /\ \E k \in cache_keys(cache) :
          entry_of(cache, k).timestamp > entry_of(cache, last.key[1]).timestamp

\* C36 (as claimed): a set of a key that is already present removes no
\* other entry that has not expired, also when the cache is full: every
\* such entry is in the cache afterwards, as it was.
C36_OverwriteKeepsOthers ==
    (last.op = "set" /\ last.key[1] \in cache_keys(last.pre)) =>
        \A k \in (cache_keys(last.pre) \ expired_at(last.pre, last.at)) \ {last.key[1]} :
            /\ k \in cache_keys(cache)
            /\ entry_of(cache, k) = entry_of(last.pre, k)

\* C11 (as claimed): with max_size = 0, after every set(key, value) the
\* cache holds no entry and get(key) returns absent.
C11_ZeroSizeDisables ==
    (max_size = 0 /\ last.op = "set") =>
        /\ cache = <<>>
        /\ get_result(last.key[1]) = None

\* ------------------------------------------------------ RateLimiter claims

\* the calls made for one key, in order
calls_of(k) == SelectSeq(calls, LAMBDA c : c.key = k)

\* the indexes of list s whose instant is still inside the window at instant t
live_at(s, t) == {i \in 1..Len(s) : t - s[i] < window_seconds}

\* list s without the instants that are outside the window at instant t
RECURSIVE keep_live(_, _)
keep_live(s, t) ==
    IF s = <<>> THEN <<>>
    ELSE IF t - Head(s) < window_seconds
         THEN <<Head(s)>> \o keep_live(Tail(s), t)
         ELSE keep_live(Tail(s), t)

\* C1: for every key and every instant T, the calls of that key that
\* returned true at instants in (T - window_seconds, T] are at most
\* max_requests, whatever the interleaving of the handlers.
C1_WindowBound ==
    \A k \in Keys, T \in 0..MaxTime :
        Cardinality({i \in 1..Len(calls) :
                        /\ calls[i].key = k
                        /\ calls[i].ok
                        /\ calls[i].t <= T
                        /\ T - calls[i].t < window_seconds}) <= max_requests

\* C1 witness: two handlers are in flight for the same user, the user has
\* used up a positive limit inside the current window and was then rejected.
C1_Witness ==
    \E k \in Keys :
        /\ max_requests >= 1
        /\ handler["h1"].pc # "idle" /\ handler["h2"].pc # "idle"
        /\ handler["h1"].user = Some(k) /\ handler["h2"].user = Some(k)
        /\ Cardinality({i \in 1..Len(calls) :
              calls[i].key = k /\ calls[i].ok /\ now - calls[i].t < window_seconds})
           = max_requests
        /\ \E i \in 1..Len(calls) : calls[i].key = k /\ ~calls[i].ok

\* C7: every is_allowed call first purges the instants older than the
\* window; it returns true and records the current instant exactly when the
\* remaining count is strictly below max_requests, and otherwise returns
\* false and records nothing; with max_requests = 3 the first four calls of a
\* key made at one instant return true, true, true, false.
C7_IsAllowedContract ==
    /\ \A i \in 1..Len(calls) :
          LET c == calls[i]
              n == Cardinality(live_at(c.before, c.t))
          IN  /\ c.ok = (n < max_requests)
              /\ c.after = IF c.ok
                           THEN Append(keep_live(c.before, c.t), c.t)
                           ELSE keep_live(c.before, c.t)
    /\ \A k \in Keys :
          LET ks == calls_of(k) IN
          (max_requests = 3 /\ Len(ks) >= 4 /\ ks[4].t = ks[1].t)
              => <<ks[1].ok, ks[2].ok, ks[3].ok, ks[4].ok>> = <<TRUE, TRUE, TRUE, FALSE>>

\* C7 witness: with max_requests = 3, four calls of one key at one instant,
\* the fourth rejected, and an earlier call that purged an expired instant.
C7_Witness ==
    \E k \in Keys :
        LET ks == calls_of(k) IN
        /\ max_requests = 3
        /\ Len(ks) >= 4
        /\ ks[4].t = ks[1].t
        /\ ~ks[4].ok

\* C8 (as claimed): at any time get_reset_time(key) is absent exactly when
\* the key has no recorded instant inside the window, and otherwise is the
\* oldest such instant plus window_seconds.
C8_ResetTimeClaim ==
    \A k \in Keys :
        LET s == requests_of(k)
            live == live_at(s, now)
        IN  /\ (get_reset_time(k) = None) <=> (live = {})
            /\ live # {} =>
                 \E i \in live :
                    /\ \A j \in live : s[i] <= s[j]
                    /\ get_reset_time(k) = Some(s[i] + window_seconds)

\* C25: whenever _check_rate_limit has rejected an update and is about to
\* reply, the reply carries a wait hint: get_reset_time was present, and the
\* hinted wait (reset time minus now) is positive and at most
\* window_seconds; for every max_requests.
C25_RejectionCarriesHint ==
    \A h \in Handlers :
        handler[h].pc \in {"reply_wait", "reply_plain"} =>
            /\ handler[h].pc = "reply_wait"
            /\ handler[h].wait # None
            /\ handler[h].wait[1] > 0
            /\ handler[h].wait[1] <= window_seconds

\* C39: for max_requests >= 1, after a call of a key has returned false,
\* the first call of that key made at or after the reset time reported
\* then (the oldest instant recorded for the key plus window_seconds)
\* returns true, however many rejected calls were made in between.
C39_ThrottledKeyRecovers ==
    max_requests >= 1 =>
        \A k \in Keys :
            LET ks == calls_of(k) IN
            \A i, j \in 1..Len(ks) :
                (/\ i < j
                 /\ ~ks[i].ok
                 /\ \A m \in (i + 1)..(j - 1) : ~ks[m].ok
                 /\ ks[j].t >= seq_min(ks[i].after) + window_seconds)
                    => ks[j].ok

\* C39 witness: a key was rejected, was rejected again before its reset
\* time, and was admitted by a call made at the reset time.
C39_Witness ==
    \E k \in Keys :
        LET ks == calls_of(k) IN
        /\ max_requests >= 1
        /\ Len(ks) >= 4
        /\ \E i \in 2..(Len(ks) - 2) :
              /\ ~ks[i].ok /\ ~ks[i + 1].ok
              /\ ks[i + 1].t > ks[i].t
              /\ ks[i + 2].t = seq_min(ks[i].after) + window_seconds
              /\ ks[i + 2].ok

====
